---------------------------- MODULE Spec2Model ----------------------------
(***************************************************************************)
(* Model of the hotel-booking chatbot's two-tier memory.                   *)
(*                                                                         *)
(*   Spec     the long-term memory chatbots hotel_booking_chatbot.py       *)
(*            (flat JSON file), hotel_booking_chatbot2.py (flat JSON file  *)
(*            with corruption recovery) and hotel_booking_chatbot3.py      *)
(*            (SQLite); the variant is fixed by Init.                      *)
(*   SpecApp  app.py: one chat turn, with the retrying generation call,    *)
(*            the summary call, the room-type fallback and the profile     *)
(*            row.                                                         *)
(*                                                                         *)
(* Text is a sequence of one-character strings, so that lower(),           *)
(* capitalize(), "in" and replace() are computed as Python computes them.  *)
(***************************************************************************)
EXTENDS Integers, Sequences, FiniteSets, TLC

(***************************************************************************)
(* Bounds of the model.                                                    *)
(***************************************************************************)
MaxTurns == 2

MaxCorrupt == 1

(***************************************************************************)
(* Text: Python str operations.                                            *)
(***************************************************************************)
UpperLetters == <<"A","B","C","D","E","F","G","H","I","J","K","L","M",
                  "N","O","P","Q","R","S","T","U","V","W","X","Y","Z">>

LowerLetters == <<"a","b","c","d","e","f","g","h","i","j","k","l","m",
                  "n","o","p","q","r","s","t","u","v","w","x","y","z">>

IndexIn(c, letters) ==
    IF \E i \in 1..Len(letters) : letters[i] = c
    THEN CHOOSE i \in 1..Len(letters) : letters[i] = c
    ELSE 0

LowerChar(c) ==
    LET i == IndexIn(c, UpperLetters) IN IF i = 0 THEN c ELSE LowerLetters[i]

UpperChar(c) ==
    LET i == IndexIn(c, LowerLetters) IN IF i = 0 THEN c ELSE UpperLetters[i]

\* str.lower()
Lower(s) == [i \in 1..Len(s) |-> LowerChar(s[i])]

\* str.capitalize(): the first character upper-cased, all the others
\* lower-cased.
Capitalize(s) ==
    [i \in 1..Len(s) |-> IF i = 1 THEN UpperChar(s[i]) ELSE LowerChar(s[i])]

\* needle occurs in hay at position i
OccursAt(needle, hay, i) ==
    /\ i >= 1
    /\ i + Len(needle) - 1 <= Len(hay)
    /\ \A j \in 1..Len(needle) : hay[i + j - 1] = needle[j]

\* Python: needle in hay
Contains(needle, hay) ==
    \E i \in 1..(Len(hay) + 1) : OccursAt(needle, hay, i)

(***************************************************************************)
(* Inputs of the long-term memory chatbots.                                *)
(***************************************************************************)
Sessions == {"s1", "s2"}

\* UserIdentity is an input of the script (st.text_input); "user123" is the
\* widget's default.
Users == {"user123", "user456"}

\* chat inputs: "BUDGET", "a city", "hi"
PromptBudget == <<"B","U","D","G","E","T">>

PromptCity == <<"a"," ","c","i","t","y">>

PromptHi == <<"h","i">>

Prompts == {PromptBudget, PromptCity, PromptHi}

\* replies of conversation.predict
Responses == {<<"o","k">>}

KwBudget == <<"b","u","d","g","e","t">>

KwLocation == <<"l","o","c","a","t","i","o","n">>

KwCity == <<"c","i","t","y">>

(***************************************************************************)
(* Python dict with insertion order: a sequence of [key, value] records    *)
(* with distinct keys.                                                     *)
(***************************************************************************)
DictHas(d, k) == \E i \in 1..Len(d) : d[i].key = k

DictGet(d, k) == d[CHOOSE i \in 1..Len(d) : d[i].key = k].value

\* d[k] = v
DictSet(d, k, v) ==
    IF DictHas(d, k)
    THEN [i \in 1..Len(d) |-> IF d[i].key = k THEN [key |-> k, value |-> v] ELSE d[i]]
    ELSE Append(d, [key |-> k, value |-> v])

EmptyMemory == [preferences |-> <<>>, history |-> <<>>]

(***************************************************************************)
(* JSON text of one history entry.  wf = FALSE is text json.loads rejects  *)
(* (a garbled serialization of the same entry).                            *)
(***************************************************************************)
JsonDumps(entry) ==
    [wf |-> TRUE, user_input |-> entry.user_input,
     assistant_response |-> entry.assistant_response]

JsonParses(text) == text.wf

JsonLoads(text) ==
    [user_input |-> text.user_input, assistant_response |-> text.assistant_response]

Garble(text) == [text EXCEPT !.wf = FALSE]

VARIABLES
    variant,          \* "json_v1" | "json_v2" | "sqlite": which chatbot runs
    file,             \* long_term_memory.json: [state, data]
    users_tbl,        \* SQLite table Users: set of user_id
    db,               \* SQLite table Memory: rows in rowid order
    pc,               \* per session: position of the script
    user_id,          \* per session: st.session_state.user_id
    long_term_data,   \* per session: main()'s local long_term_data (empty
                      \* between runs)
    save_data,        \* per session: `data` read by the JSON save
    load_saw,         \* per session: what the last load found persisted
    load_status,      \* per session: "none" | "ok" | "raised"
    load_expected,    \* per session: last_write of the user when it loaded
    last_write,       \* per user: key -> value of the latest save holding it
    last_save,        \* the latest save call: [user, memory, repeat, inserted]
    turns,            \* completed turns
    corruptions,      \* corruptions of the persisted data so far
    committed         \* per user: the turns whose save was made, in the
                      \* order of the saves

mem_vars == <<variant, file, users_tbl, db, pc, user_id, long_term_data, save_data,
              load_saw, load_status, load_expected, last_write, last_save,
              turns, corruptions, committed>>

\* app.py: the state of the script and of its stores
VARIABLES
    typed_user_id,    \* user_id: the content of the User ID box
    ss_user_name,     \* st.session_state.user_name
    chain_ready,      \* "chain" in st.session_state
    ss_preferences,   \* st.session_state.preferences
    ss_messages,      \* st.session_state.messages
    store,            \* store of the run that built the chain, which the
                      \* chain's get_session_history reads and writes:
                      \* session_id -> messages of the chat history
    run_store,        \* store of the latest run of the script
    profiles,         \* table user_profiles: user_id -> preferences
    app_pc,           \* "idle" | "calling" | "summarizing"
    turn,             \* the chat turn being handled, or the latest one
    gw,               \* call_llm_with_retry: the call of the turn
    consolidation,    \* the summary step of the latest turn
    run_error,        \* how the latest turn ended: "none" or what was raised
    app_turns         \* chat turns ended

app_vars == <<typed_user_id, ss_user_name, chain_ready, ss_preferences, ss_messages,
              store, run_store, profiles, app_pc, turn, gw, consolidation, run_error, app_turns>>



(***************************************************************************)
(* hotel_booking_chatbot3.py: the SQLite store.  A row of Memory is        *)
(* [user_id, data_type, key, value]; its id is its position in db (the     *)
(* column is AUTOINCREMENT and no row is ever deleted).  The timestamp     *)
(* columns are written and never read, and are left out.                   *)
(***************************************************************************)
PrefKey(name) == [name |-> name, n |-> 0]

\* f"interaction_{len(memory_data['history'])}"
InteractionKey(n) == [name |-> "interaction_", n |-> n]

Row(u, t, k, v) == [user_id |-> u, data_type |-> t, key |-> k, value |-> v]

\* SELECT data_type, key, value FROM Memory WHERE user_id = ?  (table scan,
\* rowid order)
RowsOf(rows, u) == SelectSeq(rows, LAMBDA r : r.user_id = u)

RECURSIVE LoadRows(_, _)
\* the loop over the fetched rows: later preference rows overwrite earlier
\* ones of the same key, history rows that do not parse are skipped
LoadRows(rows, acc) ==
    IF rows = <<>> THEN acc
    ELSE LET r == Head(rows) IN
         LoadRows(Tail(rows),
            IF r.data_type = "preference"
            THEN [acc EXCEPT !.preferences = DictSet(@, r.key.name, r.value)]
            ELSE IF r.data_type = "history" /\ JsonParses(r.value)
                 THEN [acc EXCEPT !.history = Append(@, JsonLoads(r.value))]
                 ELSE acc)

\* load_long_term_memory(user_id) of the SQLite variant: the dict returned
SqlLoad(rows, u) == LoadRows(RowsOf(rows, u), EmptyMemory)

RECURSIVE SavePreferences(_, _, _)
\* INSERT OR REPLACE INTO Memory (user_id, data_type, key, value, timestamp):
\* Memory has no UNIQUE constraint besides its AUTOINCREMENT id, which the
\* statement does not give, so no row ever conflicts and every execution
\* inserts a row.
SavePreferences(rows, u, prefs) ==
    IF prefs = <<>> THEN rows
    ELSE SavePreferences(
            Append(rows, Row(u, "preference", PrefKey(Head(prefs).key), Head(prefs).value)),
            u, Tail(prefs))

NoDedupCheck(rows, u, text) == FALSE

\* SELECT id FROM Memory WHERE user_id = ? AND data_type = ? AND value = ?
\* ... if not cursor.fetchone()
EntryPresent(rows, u, text) ==
    \E i \in 1..Len(rows) :
        /\ rows[i].user_id = u
        /\ rows[i].data_type = "history"
        /\ rows[i].value = text

RECURSIVE SaveHistory(_, _, _, _)
SaveHistory(rows, u, entries, n) ==
    IF entries = <<>> THEN rows
    ELSE LET text == JsonDumps(Head(entries)) IN
         SaveHistory(
            IF EntryPresent(rows, u, text) THEN rows
            ELSE Append(rows, Row(u, "history", InteractionKey(n), text)),
            u, Tail(entries), n)

\* save_long_term_memory(user_id, memory_data) of the SQLite variant: the
\* Memory table after the commit
SqlSave(rows, u, memory) ==
    SaveHistory(SavePreferences(rows, u, memory.preferences),
                u, memory.history, Len(memory.history))

(***************************************************************************)
(* hotel_booking_chatbot.py and hotel_booking_chatbot2.py: the JSON file.  *)
(* file.state is "absent" (no file), "valid" (the text json.dump wrote,    *)
(* file.data being the object it parses to: user -> memory), "blank"       *)
(* (empty or white space) or "malformed" (text json.loads rejects).        *)
(***************************************************************************)
NoData == <<>>

FileOf(state, data) == [state |-> state, data |-> data]

\* data.get(user_id, {"preferences": {}, "history": []})
DataGet(data, u) == IF u \in DOMAIN data THEN data[u] ELSE EmptyMemory

\* data[user_id] = memory_data
DataSet(data, u, memory) ==
    [x \in (DOMAIN data) \cup {u} |-> IF x = u THEN memory ELSE data[x]]

\* load_long_term_memory of hotel_booking_chatbot.py: json.load raises on a
\* blank or malformed file
JsonLoadV1(f, u) ==
    CASE f.state = "absent" -> [status |-> "ok", memory |-> EmptyMemory]
      [] f.state = "valid"  -> [status |-> "ok", memory |-> DataGet(f.data, u)]
      [] OTHER              -> [status |-> "raised", memory |-> EmptyMemory]

\* load_long_term_memory of hotel_booking_chatbot2.py
JsonLoadV2(f, u) ==
    CASE f.state = "valid" -> [status |-> "ok", memory |-> DataGet(f.data, u)]
      [] OTHER             -> [status |-> "ok", memory |-> EmptyMemory]

\* the first half of save_long_term_memory: the `data` it is about to update
JsonSaveReadV1(f) ==
    CASE f.state = "absent" -> [status |-> "ok", data |-> NoData]
      [] f.state = "valid"  -> [status |-> "ok", data |-> f.data]
      [] OTHER              -> [status |-> "raised", data |-> NoData]

JsonSaveReadV2(f) ==
    CASE f.state = "valid" -> [status |-> "ok", data |-> f.data]
      [] OTHER             -> [status |-> "ok", data |-> NoData]

\* the second half: data[user_id] = memory_data; json.dump(data, f)
JsonSaveWrite(data, u, memory) == FileOf("valid", DataSet(data, u, memory))

(***************************************************************************)
(* What is persisted for a user, as a load would see it.                   *)
(***************************************************************************)
PersistedMemory(u) ==
    IF variant = "sqlite" THEN SqlLoad(db, u)
    ELSE IF file.state = "valid" THEN DataGet(file.data, u) ELSE EmptyMemory

PersistedHistory(u) == PersistedMemory(u).history

\* the persisted record of the user is malformed text: the JSON file does
\* not parse, or the user has rows in Memory and none of them is readable
PersistedMalformed(u) ==
    IF variant = "sqlite"
    THEN /\ RowsOf(db, u) # <<>>
         /\ \A i \in 1..Len(db) :
               db[i].user_id = u =>
                  db[i].data_type = "history" /\ ~JsonParses(db[i].value)
    ELSE file.state = "malformed"

(***************************************************************************)
(* main(): the update of long_term_data after a reply.                     *)
(***************************************************************************)
PrefKeys == {"budget", "location"}

NoValue == <<>>

HeuristicsCaseSensitive(prefs, prompt) ==
    LET p1 == IF Contains(KwBudget, prompt)
              THEN DictSet(prefs, "budget", prompt) ELSE prefs
    IN  IF Contains(KwLocation, prompt) \/ Contains(KwCity, prompt)
        THEN DictSet(p1, "location", prompt) ELSE p1

\* if "budget" in prompt.lower(): ...; if "location" in ... or "city" in ...
Heuristics(prefs, prompt) ==
    LET p1 == IF Contains(KwBudget, Lower(prompt))
              THEN DictSet(prefs, "budget", prompt) ELSE prefs
    IN  IF Contains(KwLocation, Lower(prompt)) \/ Contains(KwCity, Lower(prompt))
        THEN DictSet(p1, "location", prompt) ELSE p1

\* long_term_data["history"].append(...) and the two keyword tests
UpdateMemory(memory, prompt, response) ==
    [preferences |-> Heuristics(memory.preferences, prompt),
     history |-> Append(memory.history,
                        [user_input |-> prompt, assistant_response |-> response])]

\* one run of main() with chat input that no other run overlaps, SQLite:
\* load, reply, update, save
CycleSql(rows, u, t) ==
    SqlSave(rows, u, UpdateMemory(SqlLoad(rows, u), t.user_input, t.assistant_response))

\* the same of hotel_booking_chatbot2.py
CycleJsonV2(f, u, t) ==
    JsonSaveWrite(JsonSaveReadV2(f).data, u,
                  UpdateMemory(JsonLoadV2(f, u).memory, t.user_input, t.assistant_response))

\* bookkeeping: the value each key got from the latest save that held it
WriteLog(log, prefs) ==
    [k \in PrefKeys |-> IF DictHas(prefs, k) THEN DictGet(prefs, k) ELSE log[k]]

NoSave == [user |-> "", memory |-> EmptyMemory, repeat |-> FALSE, inserted |-> 0, calls |-> 0]

SaveRecord(u, memory, before, after) ==
    [user |-> u, memory |-> memory,
     repeat |-> (last_save.calls > 0 /\ last_save.user = u /\ last_save.memory = memory),
     inserted |-> after - before,
     calls |-> 1]


(***************************************************************************)
(* The long-term memory chatbots: actions.  A session is one browser       *)
(* session; every interaction reruns main(), which loads the user's memory *)
(* and, when there is chat input, asks for a reply, updates the memory and *)
(* saves it.  The reply is a blocking call between the load and the save,  *)
(* so other sessions run in between.  A SQLite save is one transaction     *)
(* (the first INSERT takes the write lock, held until commit); the JSON    *)
(* save reads the file and later rewrites it.                              *)
(***************************************************************************)
Variants == {"json_v1", "json_v2", "sqlite"}

NoLog == [k \in PrefKeys |-> NoValue]

MemInit ==
    /\ variant \in Variants
    /\ file = FileOf("absent", NoData)
    /\ users_tbl = {}
    /\ db = <<>>
    /\ pc = [s \in Sessions |-> "new"]
    /\ user_id = [s \in Sessions |-> ""]
    /\ long_term_data = [s \in Sessions |-> EmptyMemory]
    /\ save_data = [s \in Sessions |-> NoData]
    /\ load_saw = [s \in Sessions |-> "none"]
    /\ load_status = [s \in Sessions |-> "none"]
    /\ load_expected = [s \in Sessions |-> NoLog]
    /\ last_write = [u \in Users |-> NoLog]
    /\ last_save = NoSave
    /\ turns = 0
    /\ corruptions = 0
    /\ committed = [u \in Users |-> <<>>]

\* first run of main(): st.session_state.user_id is set, once
StartSession(s, u) ==
    /\ pc[s] = "new"
    /\ user_id' = [user_id EXCEPT ![s] = u]
    /\ pc' = [pc EXCEPT ![s] = "idle"]
    /\ UNCHANGED <<variant, file, users_tbl, db, long_term_data, save_data, load_saw,
                   load_status, load_expected, last_write, last_save, turns,
                   corruptions, committed>>
    /\ UNCHANGED app_vars

SawPersisted(u) ==
    IF PersistedMalformed(u) THEN "malformed"
    ELSE IF variant = "sqlite" THEN "valid" ELSE file.state

\* long_term_data = load_long_term_memory(user_id), SQLite
RunLoadSql(s) ==
    /\ variant = "sqlite"
    /\ pc[s] = "idle"
    /\ users_tbl' = users_tbl \cup {user_id[s]}
    /\ long_term_data' = [long_term_data EXCEPT ![s] = SqlLoad(db, user_id[s])]
    /\ load_saw' = [load_saw EXCEPT ![s] = SawPersisted(user_id[s])]
    /\ load_status' = [load_status EXCEPT ![s] = "ok"]
    /\ load_expected' = [load_expected EXCEPT ![s] = last_write[user_id[s]]]
    /\ pc' = [pc EXCEPT ![s] = "loaded"]
    /\ UNCHANGED <<variant, file, db, user_id, save_data, last_write, last_save,
                   turns, corruptions, committed>>
    /\ UNCHANGED app_vars

\* long_term_data = load_long_term_memory(user_id), JSON file; when the load
\* raises, the run ends there
RunLoadJson(s) ==
    /\ variant \in {"json_v1", "json_v2"}
    /\ pc[s] = "idle"
    /\ LET r == IF variant = "json_v1" THEN JsonLoadV1(file, user_id[s])
                ELSE JsonLoadV2(file, user_id[s])
       IN  /\ long_term_data' = [long_term_data EXCEPT ![s] = r.memory]
           /\ load_status' = [load_status EXCEPT ![s] = r.status]
           /\ pc' = [pc EXCEPT ![s] = IF r.status = "ok" THEN "loaded" ELSE "idle"]
    /\ load_saw' = [load_saw EXCEPT ![s] = SawPersisted(user_id[s])]
    /\ load_expected' = [load_expected EXCEPT ![s] = last_write[user_id[s]]]
    /\ UNCHANGED <<variant, file, users_tbl, db, user_id, save_data, last_write,
                   last_save, turns, corruptions, committed>>
    /\ UNCHANGED app_vars

\* a run without chat input ends after the load
EndRun(s) ==
    /\ pc[s] = "loaded"
    /\ pc' = [pc EXCEPT ![s] = "idle"]
    /\ long_term_data' = [long_term_data EXCEPT ![s] = EmptyMemory]
    /\ load_saw' = [load_saw EXCEPT ![s] = "none"]
    /\ load_status' = [load_status EXCEPT ![s] = "none"]
    /\ load_expected' = [load_expected EXCEPT ![s] = NoLog]
    /\ UNCHANGED <<variant, file, users_tbl, db, user_id, save_data, last_write,
                   last_save, turns, corruptions, committed>>
    /\ UNCHANGED app_vars

\* chat input, SQLite: the reply, the update of long_term_data and the save
HandleInputSql(s, prompt, response) ==
    /\ variant = "sqlite"
    /\ pc[s] = "loaded"
    /\ turns < MaxTurns
    /\ LET u == user_id[s]
           memory == UpdateMemory(long_term_data[s], prompt, response)
           rows == SqlSave(db, u, memory)
       IN  /\ long_term_data' = [long_term_data EXCEPT ![s] = EmptyMemory]
           /\ users_tbl' = users_tbl \cup {u}
           /\ db' = rows
           /\ last_write' = [last_write EXCEPT ![u] = WriteLog(@, memory.preferences)]
           /\ last_save' = SaveRecord(u, memory, Len(SqlLoad(db, u).history),
                                      Len(SqlLoad(rows, u).history))
           /\ committed' = [committed EXCEPT
                               ![u] = Append(@, [user_input |-> prompt,
                                                 assistant_response |-> response])]
    /\ turns' = turns + 1
    /\ pc' = [pc EXCEPT ![s] = "idle"]
    /\ load_saw' = [load_saw EXCEPT ![s] = "none"]
    /\ load_status' = [load_status EXCEPT ![s] = "none"]
    /\ load_expected' = [load_expected EXCEPT ![s] = NoLog]
    /\ UNCHANGED <<variant, file, user_id, save_data, corruptions>>
    /\ UNCHANGED app_vars

\* chat input, JSON file: the reply, the update of long_term_data and the
\* first half of the save (the file is read); when that read raises, the
\* run ends there
HandleInputJson(s, prompt, response) ==
    /\ variant \in {"json_v1", "json_v2"}
    /\ pc[s] = "loaded"
    /\ turns < MaxTurns
    /\ LET r == IF variant = "json_v1" THEN JsonSaveReadV1(file) ELSE JsonSaveReadV2(file)
       IN  /\ save_data' = [save_data EXCEPT ![s] = r.data]
           /\ pc' = [pc EXCEPT ![s] = IF r.status = "ok" THEN "saving" ELSE "idle"]
           /\ long_term_data' =
                 [long_term_data EXCEPT
                    ![s] = IF r.status = "ok" THEN UpdateMemory(@, prompt, response)
                           ELSE EmptyMemory]
    /\ turns' = turns + 1
    /\ load_saw' = [load_saw EXCEPT ![s] = "none"]
    /\ load_status' = [load_status EXCEPT ![s] = "none"]
    /\ load_expected' = [load_expected EXCEPT ![s] = NoLog]
    /\ UNCHANGED <<variant, file, users_tbl, db, user_id, last_write, last_save,
                   corruptions, committed>>
    /\ UNCHANGED app_vars

\* the second half of the JSON save: the file is rewritten in full
SaveWriteJson(s) ==
    /\ pc[s] = "saving"
    /\ LET u == user_id[s]
           f == JsonSaveWrite(save_data[s], u, long_term_data[s])
       IN  /\ file' = f
           /\ last_write' =
                 [last_write EXCEPT ![u] = WriteLog(@, long_term_data[s].preferences)]
           /\ last_save' = SaveRecord(u, long_term_data[s], Len(PersistedHistory(u)),
                                      Len(DataGet(f.data, u).history))
           /\ committed' =
                 [committed EXCEPT
                     ![u] = Append(@, long_term_data[s].history[Len(long_term_data[s].history)])]
    /\ save_data' = [save_data EXCEPT ![s] = NoData]
    /\ long_term_data' = [long_term_data EXCEPT ![s] = EmptyMemory]
    /\ pc' = [pc EXCEPT ![s] = "idle"]
    /\ UNCHANGED <<variant, users_tbl, db, user_id, load_saw, load_status,
                   load_expected, turns, corruptions>>
    /\ UNCHANGED app_vars

\* the environment damages the JSON file: it is left blank or malformed,
\* and what was saved in it is gone
CorruptFile(state) ==
    /\ variant \in {"json_v1", "json_v2"}
    /\ corruptions < MaxCorrupt
    /\ file' = FileOf(state, NoData)
    /\ last_write' = [u \in Users |-> NoLog]
    /\ last_save' = NoSave
    /\ corruptions' = corruptions + 1
    /\ UNCHANGED <<variant, users_tbl, db, pc, user_id, long_term_data, save_data,
                   load_saw, load_status, load_expected, turns, committed>>
    /\ UNCHANGED app_vars

\* the environment damages the value of one history row of the database
CorruptRow ==
    /\ variant = "sqlite"
    /\ corruptions < MaxCorrupt
    /\ \E i \in 1..Len(db) :
          /\ db[i].data_type = "history"
          /\ JsonParses(db[i].value)
          /\ db' = [db EXCEPT ![i].value = Garble(@)]
    /\ last_save' = NoSave
    /\ corruptions' = corruptions + 1
    /\ UNCHANGED <<variant, file, users_tbl, pc, user_id, long_term_data, save_data,
                   load_saw, load_status, load_expected, last_write, turns, committed>>
    /\ UNCHANGED app_vars

MemNext ==
    \/ \E s \in Sessions, u \in Users : StartSession(s, u)
    \/ \E s \in Sessions : RunLoadSql(s)
    \/ \E s \in Sessions : RunLoadJson(s)
    \/ \E s \in Sessions : EndRun(s)
    \/ \E s \in Sessions, p \in Prompts, r \in Responses : HandleInputSql(s, p, r)
    \/ \E s \in Sessions, p \in Prompts, r \in Responses : HandleInputJson(s, p, r)
    \/ \E s \in Sessions : SaveWriteJson(s)
    \/ \E st \in {"blank", "malformed"} : CorruptFile(st)
    \/ CorruptRow


(***************************************************************************)
(* app.py: texts.                                                          *)
(***************************************************************************)
\* "rate_limit"
RateLimitMarker ==
    <<"r","a","t","e","_","l","i","m","i","t">>

\* "Max retries exceeded"
MaxRetriesExceeded ==
    <<"M","a","x"," ","r","e","t","r","i","e","s"," ","e","x","c","e","e","d",
          "e","d">>

\* failures of runnable.invoke: "429 Rate_Limit"
ErrRateLimit ==
    <<"4","2","9"," ","R","a","t","e","_","L","i","m","i","t">>

\* "rate limit"
ErrRateSpace ==
    <<"r","a","t","e"," ","l","i","m","i","t">>

\* "timeout"
ErrTimeout ==
    <<"t","i","m","e","o","u","t">>

InvokeErrors == {ErrRateLimit, ErrRateSpace, ErrTimeout}

\* chat inputs: "I'd like a queen bed please"
InputQueen ==
    <<"I","'","d"," ","l","i","k","e"," ","a"," ","q","u","e","e","n"," ","b",
          "e","d"," ","p","l","e","a","s","e">>

\* "King bed or suite"
InputSuite ==
    <<"K","i","n","g"," ","b","e","d"," ","o","r"," ","s","u","i","t","e">>

\* "Suite, or a king bed"
InputSuiteFirst ==
    <<"S","u","i","t","e",","," ","o","r"," ","a"," ","k","i","n","g"," ","b",
          "e","d">>

ChatInputs == {InputQueen, InputSuite, InputSuiteFirst}

\* reply of the model: "ok"
ReplyOk ==
    <<"o","k">>

Replies == {ReplyOk}

\* outputs of the summary model: "Name: John, Location: London, Room Type: Suite, Other: Has Pool"
SummaryJohn ==
    <<"N","a","m","e",":"," ","J","o","h","n",","," ","L","o","c","a","t","i",
          "o","n",":"," ","L","o","n","d","o","n",","," ","R","o","o","m"," ",
          "T","y","p","e",":"," ","S","u","i","t","e",","," ","O","t","h","e",
          "r",":"," ","H","a","s"," ","P","o","o","l">>

\* "Name: A, Location: B, Room Type: Not Specified, Other: C"
SummaryNoRoom ==
    <<"N","a","m","e",":"," ","A",","," ","L","o","c","a","t","i","o","n",":",
          " ","B",","," ","R","o","o","m"," ","T","y","p","e",":"," ","N","o",
          "t"," ","S","p","e","c","i","f","i","e","d",","," ","O","t","h","e",
          "r",":"," ","C">>

\* "Sorry"
SummarySorry ==
    <<"S","o","r","r","y">>

SummaryOutputs == {SummaryJohn, SummaryNoRoom, SummarySorry}

\* "Room Type: Not Specified"
RoomTypeNotSpecified ==
    <<"R","o","o","m"," ","T","y","p","e",":"," ","N","o","t"," ","S","p","e",
          "c","i","f","i","e","d">>

\* "Room Type: "
RoomTypePrefix ==
    <<"R","o","o","m"," ","T","y","p","e",":"," ">>

\* "Not Specified"
NotSpecified ==
    <<"N","o","t"," ","S","p","e","c","i","f","i","e","d">>

\* "king bed"
KingBed ==
    <<"k","i","n","g"," ","b","e","d">>

\* "double bed"
DoubleBed ==
    <<"d","o","u","b","l","e"," ","b","e","d">>

\* "queen bed"
QueenBed ==
    <<"q","u","e","e","n"," ","b","e","d">>

\* "suite"
Suite ==
    <<"s","u","i","t","e">>

\* "single bed"
SingleBed ==
    <<"s","i","n","g","l","e"," ","b","e","d">>

\* room_types
room_types == <<KingBed, DoubleBed, QueenBed, Suite, SingleBed>>

\* "No preferences found."
NoPreferencesFound ==
    <<"N","o"," ","p","r","e","f","e","r","e","n","c","e","s"," ","f","o","u",
          "n","d",".">>

\* "Name: "
NamePrefix ==
    <<"N","a","m","e",":"," ">>

\* msg.type of the messages of a chat history: "human"
TypeHuman ==
    <<"h","u","m","a","n">>

\* "ai"
TypeAi ==
    <<"a","i">>

\* ": "
ColonSpace ==
    <<":"," ">>

\* "\n"
Newline ==
    <<"\n">>

\* a user name typed into the name box: "John"
NameJohn ==
    <<"J","o","h","n">>

(***************************************************************************)
(* app.py: text helpers.                                                   *)
(***************************************************************************)
\* needle occurs in s at or after position i: the first such position, or 0
RECURSIVE FindFrom(_, _, _)
FindFrom(needle, s, i) ==
    IF i + Len(needle) - 1 > Len(s) THEN 0
    ELSE IF OccursAt(needle, s, i) THEN i
    ELSE FindFrom(needle, s, i + 1)

\* str.replace(old, new): every occurrence, left to right, not overlapping
RECURSIVE Replace(_, _, _)
Replace(s, old, new) ==
    LET i == FindFrom(old, s, 1) IN
    IF old = <<>> \/ i = 0 THEN s
    ELSE SubSeq(s, 1, i - 1) \o new
         \o Replace(SubSeq(s, i + Len(old), Len(s)), old, new)

\* f"{msg.type}: {msg.content}"
MessageLine(msg) == msg.type \o ColonSpace \o msg.content

\* "\n".join(lines)
RECURSIVE JoinLines(_)
JoinLines(lines) ==
    IF lines = <<>> THEN <<>>
    ELSE IF Len(lines) = 1 THEN lines[1]
    ELSE lines[1] \o Newline \o JoinLines(Tail(lines))

\* history_str of a chat history
HistoryStr(messages) == JoinLines([i \in 1..Len(messages) |-> MessageLine(messages[i])])

(***************************************************************************)
(* app.py: parse_room_type.                                                *)
(***************************************************************************)
LastMatchingRoomType(history_lower, i) ==
    LET hits == {j \in i..Len(room_types) : Contains(room_types[j], history_lower)}
    IN  IF hits = {} THEN NotSpecified
        ELSE Capitalize(room_types[CHOOSE j \in hits : \A k \in hits : k <= j])

RECURSIVE RoomTypeLoop(_, _)
\* for room in room_types: if room in history_lower: return room.capitalize()
RoomTypeLoop(history_lower, i) ==
    IF i > Len(room_types) THEN NotSpecified
    ELSE IF Contains(room_types[i], history_lower) THEN Capitalize(room_types[i])
    ELSE RoomTypeLoop(history_lower, i + 1)

parse_room_type(history_str) == RoomTypeLoop(Lower(history_str), 1)

\* the fallback of the consolidation: the summary that is stored
ApplyFallback(summary, history_str) ==
    IF Contains(RoomTypeNotSpecified, summary)
    THEN Replace(summary, RoomTypeNotSpecified,
                 RoomTypePrefix \o parse_room_type(history_str))
    ELSE summary

(***************************************************************************)
(* app.py: call_llm_with_retry.  The state of one call is                  *)
(*   attempt  the loop variable                                            *)
(*   log      the outcomes of runnable.invoke so far, oldest first         *)
(*   waits    the arguments of sleep() so far                              *)
(*   result   "none" | "running" | "returned" | "raised"                   *)
(*   value    what was returned or raised                                  *)
(***************************************************************************)
max_retries == 3

RECURSIVE Pow2(_)
Pow2(n) == IF n = 0 THEN 1 ELSE 2 * Pow2(n - 1)

AlwaysTransient(err) == TRUE

\* "rate_limit" in str(e).lower()
IsTransient(err) == Contains(RateLimitMarker, Lower(err))

\* sleep(2 ** attempt)
Backoff(attempt) == Pow2(attempt)

GatewayIdle == [attempt |-> 0, log |-> <<>>, waits |-> <<>>, result |-> "none", value |-> <<>>]

GatewayStart == [GatewayIdle EXCEPT !.result = "running"]

\* try: return runnable.invoke(messages, config=config)
GatewayReturn(g, reply) ==
    [g EXCEPT !.log = Append(@, [kind |-> "ok", text |-> reply]),
              !.result = "returned",
              !.value = reply]

GatewayGivesUpEarly(g, err) ==
    LET logged == [g EXCEPT !.log = Append(@, [kind |-> "error", text |-> err])]
        slept == [logged EXCEPT !.waits = Append(@, Backoff(g.attempt)),
                                !.attempt = @ + 1]
    IN  IF IsTransient(err)
        THEN IF slept.attempt < max_retries - 1 THEN slept
             ELSE [slept EXCEPT !.result = "raised", !.value = MaxRetriesExceeded]
        ELSE [logged EXCEPT !.result = "raised", !.value = err]

\* except Exception as e: sleep and go round again, or raise e; after the
\* loop: raise Exception("Max retries exceeded")
GatewayExcept(g, err) ==
    LET logged == [g EXCEPT !.log = Append(@, [kind |-> "error", text |-> err])]
        slept == [logged EXCEPT !.waits = Append(@, Backoff(g.attempt)),
                                !.attempt = @ + 1]
    IN  IF IsTransient(err)
        THEN IF slept.attempt < max_retries THEN slept
             ELSE [slept EXCEPT !.result = "raised", !.value = MaxRetriesExceeded]
        ELSE [logged EXCEPT !.result = "raised", !.value = err]

(***************************************************************************)
(* app.py: the script.  One browser session; every interaction reruns the  *)
(* script.  The model follows the run of a chat turn through its two       *)
(* blocking calls (the reply, with its retries, and the summary).          *)
(*                                                                         *)
(* Streamlit executes every run of the script in a namespace of its own,   *)
(* so each run executes `store = {}` and defines a get_session_history     *)
(* that reads that run's store; only st.session_state lasts from run to    *)
(* run.  The chain kept in st.session_state holds the get_session_history  *)
(* of the run that built it, and with it that run's store.  The calls the  *)
(* script makes itself ("Summarize and save preferences", "Display         *)
(* memory") go to the store of the run they are in.                        *)
(***************************************************************************)
MaxAppTurns == 2

AppUsers == {"user_1", "user_2"}

NoUser == ""

UserNames == {NameJohn}

NoTurn == [user_id |-> NoUser, input |-> <<>>, preferences |-> <<>>,
           had_profile |-> FALSE, profile_before |-> <<>>, ss_before |-> <<>>,
           messages_before |-> <<>>, store_before |-> <<>>, built_chain |-> FALSE]

NoConsolidation == [fresh |-> FALSE, outcome |-> "none", raw |-> <<>>, final |-> <<>>,
                    history_str |-> <<>>]

AppInit ==
    /\ typed_user_id = NoUser
    /\ ss_user_name = <<>>
    /\ chain_ready = FALSE
    /\ ss_preferences = <<>>
    /\ ss_messages = <<>>
    /\ store = <<>>
    /\ run_store = <<>>
    /\ profiles = <<>>
    /\ app_pc = "idle"
    /\ turn = NoTurn
    /\ gw = GatewayIdle
    /\ consolidation = NoConsolidation
    /\ run_error = "none"
    /\ app_turns = 0

\* get_session_history(session_id): the store after the call
get_session_history(st, session_id) ==
    IF session_id \in DOMAIN st THEN st
    ELSE [x \in (DOMAIN st) \cup {session_id} |-> IF x = session_id THEN <<>> ELSE st[x]]

\* user.preferences if user else f"Name: {user_name}" if user_name
\* else "No preferences found."
LoadPreferences(rows, u, user_name) ==
    IF u \in DOMAIN rows THEN rows[u]
    ELSE IF user_name # <<>> THEN NamePrefix \o user_name
    ELSE NoPreferencesFound

\* what is persisted for a user and can be loaded again in a later session:
\* the preferences text of the row of user_profiles; the table has no column
\* for interactions, and the script stores and queries nothing else
Reload(rows, u) ==
    [preferences |-> LoadPreferences(rows, u, <<>>), history |-> <<>>]

\* user.preferences = summary, or session.add(UserProfile(...)); commit
SaveProfile(rows, u, summary) ==
    [x \in (DOMAIN rows) \cup {u} |-> IF x = u THEN summary ELSE rows[x]]

\* the `store` a run of the script starts with
NewStore == <<>>

\* a user id is typed into the User ID box: the script reruns, builds the
\* chain and loads the preferences if this session has no chain yet, and
\* ends at "Display memory", which looks the chat history up in the store
\* of this run
EnterUserId(u) ==
    /\ app_pc = "idle"
    /\ u # typed_user_id
    /\ typed_user_id' = u
    /\ chain_ready' = TRUE
    /\ ss_preferences' =
          IF chain_ready THEN ss_preferences
          ELSE LoadPreferences(profiles, u, ss_user_name)
    /\ run_store' = get_session_history(NewStore, u)
    /\ store' = IF chain_ready THEN store ELSE run_store'
    /\ UNCHANGED <<ss_user_name, ss_messages, profiles, app_pc, turn, gw,
                   consolidation, run_error, app_turns>>
    /\ UNCHANGED mem_vars

\* a name is typed into the name box
EnterUserName(n) ==
    /\ app_pc = "idle"
    /\ ss_user_name = <<>>
    /\ ss_user_name' = n
    /\ run_store' = IF typed_user_id # NoUser
                    THEN get_session_history(NewStore, typed_user_id)
                    ELSE NewStore
    /\ UNCHANGED <<typed_user_id, chain_ready, ss_preferences, ss_messages, store,
                   profiles, app_pc, turn, gw, consolidation, run_error, app_turns>>
    /\ UNCHANGED mem_vars

\* chat input arrives in a session that has its chain: the user message is
\* appended and call_llm_with_retry starts
SubmitInput(input) ==
    /\ app_pc = "idle"
    /\ typed_user_id # NoUser
    /\ app_turns < MaxAppTurns
    /\ ss_messages' = Append(ss_messages, [role |-> "user", content |-> input])
    /\ turn' = [user_id |-> typed_user_id, input |-> input,
                preferences |-> ss_preferences,
                had_profile |-> typed_user_id \in DOMAIN profiles,
                profile_before |-> IF typed_user_id \in DOMAIN profiles
                                   THEN profiles[typed_user_id] ELSE <<>>,
                ss_before |-> ss_preferences,
                messages_before |-> ss_messages,
                store_before |-> store,
                built_chain |-> FALSE]
    /\ run_store' = NewStore
    /\ gw' = GatewayStart
    /\ consolidation' = NoConsolidation
    /\ run_error' = "none"
    /\ app_pc' = "calling"
    /\ UNCHANGED <<typed_user_id, ss_user_name, chain_ready, ss_preferences, store,
                   profiles, app_turns>>
    /\ UNCHANGED mem_vars

\* the user id and the chat input arrive in the same run, in a session
\* that has no chain yet: the run builds the chain, so the chain's store is
\* the store of this run
FirstRunWithInput(u, input) ==
    /\ app_pc = "idle"
    /\ ~chain_ready
    /\ app_turns < MaxAppTurns
    /\ typed_user_id' = u
    /\ chain_ready' = TRUE
    /\ ss_preferences' = LoadPreferences(profiles, u, ss_user_name)
    /\ store' = NewStore
    /\ run_store' = NewStore
    /\ ss_messages' = Append(ss_messages, [role |-> "user", content |-> input])
    /\ turn' = [user_id |-> u, input |-> input,
                preferences |-> ss_preferences',
                had_profile |-> u \in DOMAIN profiles,
                profile_before |-> IF u \in DOMAIN profiles THEN profiles[u] ELSE <<>>,
                ss_before |-> ss_preferences',
                messages_before |-> ss_messages,
                store_before |-> NewStore,
                built_chain |-> TRUE]
    /\ gw' = GatewayStart
    /\ consolidation' = NoConsolidation
    /\ run_error' = "none"
    /\ app_pc' = "calling"
    /\ UNCHANGED <<ss_user_name, profiles, app_turns>>
    /\ UNCHANGED mem_vars

\* runnable.invoke returns: the chain (RunnableWithMessageHistory) adds the
\* input and the reply to the chat history of session_id = user_id, and the
\* script appends the assistant message
InvokeReturns(reply) ==
    /\ app_pc = "calling"
    /\ gw' = GatewayReturn(gw, reply)
    /\ store' = [get_session_history(store, turn.user_id) EXCEPT
                    ![turn.user_id] = @ \o <<[type |-> TypeHuman, content |-> turn.input],
                                             [type |-> TypeAi, content |-> reply]>>]
    /\ run_store' = IF turn.built_chain THEN store' ELSE run_store
    /\ ss_messages' = Append(ss_messages, [role |-> "assistant", content |-> reply])
    /\ app_pc' = "summarizing"
    /\ UNCHANGED <<typed_user_id, ss_user_name, chain_ready, ss_preferences, profiles,
                   turn, consolidation, run_error, app_turns>>
    /\ UNCHANGED mem_vars

InvokeRaisesAfterAppend(err) ==
    /\ app_pc = "calling"
    /\ LET g == GatewayExcept(gw, err)
       IN  /\ gw' = g
           /\ app_pc' = IF g.result = "raised" THEN "idle" ELSE "calling"
           /\ run_error' = IF g.result = "raised" THEN "generation" ELSE run_error
           /\ app_turns' = IF g.result = "raised" THEN app_turns + 1 ELSE app_turns
           /\ ss_messages' = IF g.result = "raised"
                             THEN Append(ss_messages, [role |-> "assistant", content |-> g.value])
                             ELSE ss_messages
    /\ UNCHANGED <<typed_user_id, ss_user_name, chain_ready, ss_preferences,
                   store, run_store, profiles, turn, consolidation>>
    /\ UNCHANGED mem_vars

\* runnable.invoke raises: the handler of call_llm_with_retry; when it
\* raises in turn, the run of the script ends with that exception
InvokeRaises(err) ==
    /\ app_pc = "calling"
    /\ LET g == GatewayExcept(gw, err)
       IN  /\ gw' = g
           /\ app_pc' = IF g.result = "raised" THEN "idle" ELSE "calling"
           /\ run_error' = IF g.result = "raised" THEN "generation" ELSE run_error
           /\ app_turns' = IF g.result = "raised" THEN app_turns + 1 ELSE app_turns
    /\ UNCHANGED <<typed_user_id, ss_user_name, chain_ready, ss_preferences,
                   ss_messages, store, run_store, profiles, turn, consolidation>>
    /\ UNCHANGED mem_vars

\* summary_llm.invoke returns: history_str was made from what
\* get_session_history(user_id) of this run gave; the fallback, the profile
\* row, the session's preferences
SummaryReturns(out) ==
    /\ app_pc = "summarizing"
    /\ LET looked_up == get_session_history(run_store, turn.user_id)
           history_str == HistoryStr(looked_up[turn.user_id])
           summary == ApplyFallback(out, history_str)
       IN  /\ run_store' = looked_up
           /\ store' = IF turn.built_chain THEN looked_up ELSE store
           /\ profiles' = SaveProfile(profiles, turn.user_id, summary)
           /\ ss_preferences' = summary
           /\ consolidation' = [fresh |-> TRUE, outcome |-> "returned", raw |-> out,
                                final |-> summary, history_str |-> history_str]
    /\ app_pc' = "idle"
    /\ app_turns' = app_turns + 1
    /\ UNCHANGED <<typed_user_id, ss_user_name, chain_ready, ss_messages, turn,
                   gw, run_error>>
    /\ UNCHANGED mem_vars

\* summary_llm.invoke raises: nothing catches it, the run ends there
SummaryRaises ==
    /\ app_pc = "summarizing"
    /\ run_store' = get_session_history(run_store, turn.user_id)
    /\ store' = IF turn.built_chain THEN run_store' ELSE store
    /\ consolidation' = [NoConsolidation EXCEPT !.fresh = TRUE, !.outcome = "raised"]
    /\ run_error' = "summary"
    /\ app_pc' = "idle"
    /\ app_turns' = app_turns + 1
    /\ UNCHANGED <<typed_user_id, ss_user_name, chain_ready, ss_preferences,
                   ss_messages, profiles, turn, gw>>
    /\ UNCHANGED mem_vars

AppNext ==
    \/ \E u \in AppUsers : EnterUserId(u)
    \/ \E n \in UserNames : EnterUserName(n)
    \/ \E input \in ChatInputs : SubmitInput(input)
    \/ \E u \in AppUsers, input \in ChatInputs : FirstRunWithInput(u, input)
    \/ \E reply \in Replies : InvokeReturns(reply)
    \/ \E err \in InvokeErrors : InvokeRaises(err)
    \/ \E out \in SummaryOutputs : SummaryReturns(out)
    \/ SummaryRaises

(***************************************************************************)
(* hotel_booking_chatbot2.py and hotel_booking_chatbot3.py: the context    *)
(* that main() composes from the loaded memory.                            *)
(***************************************************************************)
\* "None available"
NoneAvailable ==
    <<"N","o","n","e"," ","a","v","a","i","l","a","b","l","e">>

\* "\n- "
BulletPrefix ==
    <<"\n","-"," ">>

\* "Stored Preferences:\n"
StoredPreferencesHeader ==
    <<"S","t","o","r","e","d"," ","P","r","e","f","e","r","e","n","c","e","s",
          ":","\n">>

\* "\n\nRecent Past Interactions:\n"
RecentInteractionsHeader ==
    <<"\n","\n","R","e","c","e","n","t"," ","P","a","s","t"," ","I","n","t","e",
          "r","a","c","t","i","o","n","s",":","\n">>

\* "User: "
UserLabel ==
    <<"U","s","e","r",":"," ">>

\* " | Assistant: "
AssistantLabel ==
    <<" ","|"," ","A","s","s","i","s","t","a","n","t",":"," ">>

\* the preference keys as text
KeyText(k) == IF k = "budget" THEN KwBudget ELSE KwLocation

RECURSIVE JoinWith(_, _)
\* sep.join(lines)
JoinWith(sep, lines) ==
    IF lines = <<>> THEN <<>>
    ELSE IF Len(lines) = 1 THEN lines[1]
    ELSE lines[1] \o sep \o JoinWith(sep, Tail(lines))

\* f"{key}: {value}"
PreferenceLine(p) == KeyText(p.key) \o ColonSpace \o p.value

\* f"User: {item['user_input']} | Assistant: {item['assistant_response']}"
InteractionLine(item) ==
    UserLabel \o item.user_input \o AssistantLabel \o item.assistant_response

\* pref_str
PrefStr(preferences) ==
    IF preferences = <<>> THEN NoneAvailable
    ELSE BulletPrefix
         \o JoinWith(BulletPrefix,
                     [i \in 1..Len(preferences) |-> PreferenceLine(preferences[i])])

OldestThree(history) ==
    SubSeq(history, 1, IF Len(history) < 3 THEN Len(history) ELSE 3)

\* history[-3:]
recent_history(history) ==
    SubSeq(history, IF Len(history) - 3 < 0 THEN 1 ELSE Len(history) - 3 + 1,
           Len(history))

\* hist_str
HistStr(history) ==
    IF history = <<>> THEN NoneAvailable
    ELSE LET recent == recent_history(history) IN
         BulletPrefix
         \o JoinWith(BulletPrefix,
                     [i \in 1..Len(recent) |-> InteractionLine(recent[i])])

\* long_term_context_str
LongTermContextStr(memory) ==
    StoredPreferencesHeader \o PrefStr(memory.preferences)
    \o RecentInteractionsHeader \o HistStr(memory.history)

(***************************************************************************)
(* The context composed over a storage that earlier runs have filled: the  *)
(* turns of one user, run one after the other.                             *)
(***************************************************************************)
MaxStoredTurns == 4

StoredUser == "user123"

\* "dates"
PromptDates ==
    <<"d","a","t","e","s">>

StoredPrompts == Prompts \cup {PromptDates}

StoredTurns ==
    {[user_input |-> p, assistant_response |-> r] : p \in StoredPrompts, r \in Responses}

TurnSeqs == UNION {[1..k -> StoredTurns] : k \in 0..MaxStoredTurns}

RECURSIVE RowsAfter(_, _, _)
RowsAfter(rows, u, ts) ==
    IF ts = <<>> THEN rows ELSE RowsAfter(CycleSql(rows, u, Head(ts)), u, Tail(ts))

RECURSIVE FileAfter(_, _, _)
FileAfter(f, u, ts) ==
    IF ts = <<>> THEN f ELSE FileAfter(CycleJsonV2(f, u, Head(ts)), u, Tail(ts))

MemInitStored ==
    /\ variant \in {"json_v2", "sqlite"}
    /\ \E ts \in TurnSeqs :
          /\ db = IF variant = "sqlite" THEN RowsAfter(<<>>, StoredUser, ts) ELSE <<>>
          /\ file = IF variant = "sqlite" THEN FileOf("absent", NoData)
                    ELSE FileAfter(FileOf("absent", NoData), StoredUser, ts)
          /\ committed = [u \in Users |-> IF u = StoredUser THEN ts ELSE <<>>]
    /\ users_tbl = IF variant = "sqlite" THEN {StoredUser} ELSE {}
    /\ pc = [s \in Sessions |-> "new"]
    /\ user_id = [s \in Sessions |-> ""]
    /\ long_term_data = [s \in Sessions |-> EmptyMemory]
    /\ save_data = [s \in Sessions |-> NoData]
    /\ load_saw = [s \in Sessions |-> "none"]
    /\ load_status = [s \in Sessions |-> "none"]
    /\ load_expected = [s \in Sessions |-> NoLog]
    /\ last_write = [u \in Users |-> NoLog]
    /\ last_save = NoSave
    /\ turns = 0
    /\ corruptions = 0

\* runs of main() without chat input: the memory is loaded and the context
\* composed
LoadNext ==
    \/ \E s \in Sessions, u \in Users : StartSession(s, u)
    \/ \E s \in Sessions : RunLoadSql(s)
    \/ \E s \in Sessions : RunLoadJson(s)
    \/ \E s \in Sessions : EndRun(s)

(***************************************************************************)
(* The turns of one session, one after the other, over more chat inputs.   *)
(***************************************************************************)
OneSession == "s1"

\* "Location, budget"
PromptBoth ==
    <<"L","o","c","a","t","i","o","n",","," ","b","u","d","g","e","t">>

TurnPrompts == Prompts \cup {PromptBoth, PromptDates}

TurnsNext ==
    \/ \E u \in Users : StartSession(OneSession, u)
    \/ RunLoadSql(OneSession)
    \/ RunLoadJson(OneSession)
    \/ EndRun(OneSession)
    \/ \E p \in TurnPrompts, r \in Responses : HandleInputSql(OneSession, p, r)
    \/ \E p \in TurnPrompts, r \in Responses : HandleInputJson(OneSession, p, r)
    \/ SaveWriteJson(OneSession)

vars == <<mem_vars, app_vars>>

Init == MemInit /\ AppInit

Next == MemNext

Spec == Init /\ [][Next]_vars

\* app.py alone: the stores of the other chatbots stay as created
InitApp == MemInit /\ variant = "sqlite" /\ AppInit

NextApp == AppNext

SpecApp == InitApp /\ [][NextApp]_vars

\* the context composer alone, over a storage filled by earlier runs
InitStored == MemInitStored /\ AppInit

NextStored == LoadNext

SpecStored == InitStored /\ [][NextStored]_vars

\* one session taking its turns, from the storage as created
InitTurns == MemInit /\ AppInit

NextTurns == TurnsNext

SpecTurns == InitTurns /\ [][NextTurns]_vars


(***************************************************************************)
(* Properties of the Long-Term Memory Store (checked under Spec).          *)
(***************************************************************************)
IsPrefix(a, b) == Len(a) <= Len(b) /\ \A i \in 1..Len(a) : a[i] = b[i]

NoDuplicates(seq) == \A i, j \in 1..Len(seq) : seq[i] = seq[j] => i = j

\* the memory objects at hand in a state: what the sessions hold and what
\* the latest save was given
MemoryObjects == {long_term_data[s] : s \in Sessions} \cup {last_save.memory}

\* C1: in the SQLite store a save is idempotent on history: a second save
\* of the same user with the identical memory inserts no history row, saving
\* any memory object twice leaves the same history as saving it once, and no
\* two persisted interaction records of a user have identical content.
SaveIdempotentOnHistory ==
    variant = "sqlite" =>
        /\ last_save.repeat => last_save.inserted = 0
        /\ \A u \in Users : NoDuplicates(PersistedHistory(u))
        /\ \A u \in Users, m \in MemoryObjects :
              LET once == SqlSave(db, u, m)
                  twice == SqlSave(once, u, m)
              IN  /\ SqlLoad(twice, u).history = SqlLoad(once, u).history
                  /\ NoDuplicates(SqlLoad(once, u).history)

\* a second save with the identical memory has been made, on a history that
\* is not empty
SecondIdenticalSaveDone ==
    /\ variant = "sqlite"
    /\ last_save.repeat
    /\ last_save.memory.history # <<>>

\* C2: a load returns, for every preference key, the value given by the
\* most recent save of that user that contained the key (SQLite store and
\* recovering JSON store).
PreferencesLastWriteWins ==
    variant \in {"sqlite", "json_v2"} =>
        \A s \in Sessions :
            pc[s] = "loaded" =>
                \A k \in PrefKeys :
                    load_expected[s][k] # NoValue =>
                        /\ DictHas(long_term_data[s].preferences, k)
                        /\ DictGet(long_term_data[s].preferences, k) = load_expected[s][k]

\* C3: a load that finds malformed persisted data returns an empty
\* PreferenceSet and an empty history and does not raise.
CorruptionRecovery ==
    \A s \in Sessions :
        load_saw[s] = "malformed" =>
            /\ load_status[s] = "ok"
            /\ pc[s] = "loaded" => long_term_data[s] = EmptyMemory

\* C8: every completed turn adds exactly one interaction record to the
\* user's persisted history (SQLite store): the save that ends the turn
\* leaves the history one record longer.
EveryTurnAddsOneRecord ==
    (variant = "sqlite" /\ last_save.calls > 0) => last_save.inserted = 1

\* C9: persisted history is append-only: across every step that is not a
\* corruption of the storage, the persisted history of every user before the
\* step is a prefix of the one after it (SQLite store and recovering JSON
\* store).
HistoryAppendOnly ==
    [][(variant \in {"sqlite", "json_v2"} /\ corruptions' = corruptions) =>
          \A u \in Users : IsPrefix(PersistedHistory(u), PersistedHistory(u)')]_vars


(***************************************************************************)
(* Properties of the Capability Gateway (checked under SpecApp).           *)
(***************************************************************************)
\* the failures that carry the transient marker
TransientFailures == {ErrRateLimit}

TransientAt(i) == gw.log[i].kind = "error" /\ gw.log[i].text \in TransientFailures

FatalAt(i) == gw.log[i].kind = "error" /\ gw.log[i].text \notin TransientFailures

RECURSIVE SumSeq(_)
SumSeq(s) == IF s = <<>> THEN 0 ELSE Head(s) + SumSeq(Tail(s))

\* C4: a call that succeeds after k < 3 transient failures is the last
\* call, the (k+1)-th, and its result is what call_llm_with_retry returns;
\* a call that fails with a non-transient failure is the last call, and
\* that failure is what call_llm_with_retry raises.
GatewayCallCounts ==
    LET n == Len(gw.log) IN
    /\ \A i \in 1..n :
          gw.log[i].kind = "ok" =>
             /\ i = n
             /\ i - 1 < 3
             /\ \A j \in 1..(i - 1) : TransientAt(j)
             /\ gw.result = "returned"
             /\ gw.value = gw.log[i].text
    /\ \A i \in 1..n :
          FatalAt(i) =>
             /\ i = n
             /\ gw.result = "raised"
             /\ gw.value = gw.log[i].text
    /\ gw.result = "returned" => (n >= 1 /\ gw.log[n].kind = "ok")

\* two transient failures, then success on the third call
ThirdCallSucceeded ==
    /\ gw.result = "returned"
    /\ Len(gw.log) = 3
    /\ TransientAt(1) /\ TransientAt(2)

\* C5: call_llm_with_retry makes at most 3 calls and is over once the third
\* has failed; three transient failures end in the terminal "Max retries
\* exceeded" failure, which is raised only after three transient failures.
RetryExhaustion ==
    LET n == Len(gw.log) IN
    /\ n <= 3
    /\ gw.result = "running" => n < 3
    /\ app_pc = "calling" <=> gw.result = "running"
    /\ (n = 3 /\ \A i \in 1..3 : TransientAt(i)) =>
          (gw.result = "raised" /\ gw.value = MaxRetriesExceeded)
    /\ (gw.result = "raised" /\ gw.value = MaxRetriesExceeded) =>
          (n = 3 /\ \A i \in 1..3 : TransientAt(i))

\* the budget of three attempts was spent on transient failures
RetriesExhausted ==
    /\ gw.result = "raised"
    /\ gw.value = MaxRetriesExceeded
    /\ Len(gw.log) = 3

\* C6: the wait after the transient failure of attempt k is 2^k, every wait
\* is followed by another call, and three transient failures wait
\* 2^0 + 2^1 in total before the terminal failure.
BackoffSchedule ==
    /\ \A k \in 1..Len(gw.waits) : gw.waits[k] = Pow2(k - 1)
    /\ gw.result \in {"returned", "raised"} => Len(gw.waits) < Len(gw.log)
    /\ (gw.result = "raised" /\ gw.value = MaxRetriesExceeded) =>
          SumSeq(gw.waits) = Pow2(0) + Pow2(1)

(***************************************************************************)
(* Properties of the Preference Consolidator (checked under SpecApp).      *)
(***************************************************************************)
\* "Room Type: Queen Bed"
RoomTypeQueenBed ==
    <<"R","o","o","m"," ","T","y","p","e",":"," ","Q","u","e","e","n"," ","B",
          "e","d">>

\* the separators of the summary format: ", Location: "
SepLocation ==
    <<","," ","L","o","c","a","t","i","o","n",":"," ">>

\* ", Room Type: "
SepRoomType ==
    <<","," ","R","o","o","m"," ","T","y","p","e",":"," ">>

\* ", Other: "
SepOther ==
    <<","," ","O","t","h","e","r",":"," ">>

\* text has the form "Name: ..., Location: ..., Room Type: ..., Other: ..."
IsSummaryFormat(text) ==
    /\ OccursAt(NamePrefix, text, 1)
    /\ \E i, j, k \in 1..Len(text) :
          /\ Len(NamePrefix) < i
          /\ i + Len(SepLocation) <= j
          /\ j + Len(SepRoomType) <= k
          /\ OccursAt(SepLocation, text, i)
          /\ OccursAt(SepRoomType, text, j)
          /\ OccursAt(SepOther, text, k)

\* C7: when the summary holds "Room Type: Not Specified" and the
\* conversation holds "I'd like a queen bed please" (and no phrase that
\* ranks before "queen bed"), the stored summary holds
\* "Room Type: Queen Bed".
RoomTypeFallbackQueenBed ==
    ( /\ consolidation.fresh
      /\ consolidation.outcome = "returned"
      /\ Contains(RoomTypeNotSpecified, consolidation.raw)
      /\ Contains(InputQueen, consolidation.history_str)
      /\ ~Contains(KingBed, Lower(consolidation.history_str))
      /\ ~Contains(DoubleBed, Lower(consolidation.history_str)) )
    => /\ Contains(RoomTypeQueenBed, consolidation.final)
       /\ turn.user_id \in DOMAIN profiles
       /\ profiles[turn.user_id] = consolidation.final

\* C10: when the summary call fails, or returns text that is not in the
\* summary format, the turn ends without an error and the persisted and the
\* in-session preferences are what they were before the turn.
ConsolidationFailureNonFatal ==
    ( /\ app_pc = "idle"
      /\ consolidation.fresh
      /\ \/ consolidation.outcome = "raised"
         \/ (consolidation.outcome = "returned" /\ ~IsSummaryFormat(consolidation.raw)) )
    => /\ run_error = "none"
       /\ ss_preferences = turn.ss_before
       /\ (turn.user_id \in DOMAIN profiles) = turn.had_profile
       /\ turn.had_profile => profiles[turn.user_id] = turn.profile_before

(***************************************************************************)
(* Concurrency of the Long-Term Memory Store (checked under Spec).         *)
(***************************************************************************)
\* the long-term storage as created: no file, no rows
EmptyStorage == [db |-> <<>>, file |-> FileOf("absent", NoData)]

\* the storage after one load-modify-save cycle run alone on it
RunAlone(st, u, t) ==
    IF variant = "sqlite" THEN [st EXCEPT !.db = CycleSql(st.db, u, t)]
    ELSE [st EXCEPT !.file = CycleJsonV2(st.file, u, t)]

\* what a load of the user returns from a storage
MemoryIn(st, u) ==
    IF variant = "sqlite" THEN SqlLoad(st.db, u) ELSE JsonLoadV2(st.file, u).memory

RECURSIVE SerialOutcomes(_, _, _)
\* the memories of the user after running the cycles of the turns todo
\* (positions in committed[u]) one after the other, in every order
SerialOutcomes(st, u, todo) ==
    IF todo = {} THEN {MemoryIn(st, u)}
    ELSE UNION {SerialOutcomes(RunAlone(st, u, committed[u][i]), u, todo \ {i}) :
                    i \in todo}

\* C12: per-user updates are serialized: whatever way the turns of a user
\* overlapped, the persisted memory of the user is the result of running
\* their load-modify-save cycles one after the other in some order (SQLite
\* store and recovering JSON store, storage not corrupted).
PerUserUpdatesSerialized ==
    (variant \in {"sqlite", "json_v2"} /\ corruptions = 0) =>
        \A u \in Users :
            PersistedMemory(u) \in SerialOutcomes(EmptyStorage, u, 1..Len(committed[u]))

\* the memory a load returns holds the data of the memory m that was saved:
\* every preference of m with its value, every record of m
HoldsDataOf(loaded, m) ==
    /\ \A i \in 1..Len(m.preferences) :
          /\ DictHas(loaded.preferences, m.preferences[i].key)
          /\ DictGet(loaded.preferences, m.preferences[i].key) = m.preferences[i].value
    /\ \A i \in 1..Len(m.history) :
          \E j \in 1..Len(loaded.history) : loaded.history[j] = m.history[i]

\* C13: operations of different users are independent: however the steps
\* of the saves of two users interleave, the step that completes a save of
\* user u leaves a record that holds the saved data of u, and leaves what
\* is persisted for every other user as it was.
SavesOfDifferentUsersIndependent ==
    [][\A u \in Users :
          committed'[u] # committed[u] =>
             /\ HoldsDataOf(PersistedMemory(u)', last_save'.memory)
             /\ \A other \in Users \ {u} :
                   PersistedMemory(other)' = PersistedMemory(other)]_vars

\* the keys of a preference dict are distinct
KeysOnce(prefs) == \A i, j \in 1..Len(prefs) : prefs[i].key = prefs[j].key => i = j

\* the rows of Memory that hold the preference k of user u
PreferenceRows(u, k) ==
    {i \in 1..Len(db) : /\ db[i].user_id = u
                         /\ db[i].data_type = "preference"
                         /\ db[i].key = PrefKey(k)}

\* C17: preference keys are unique: the store holds at most one preference
\* entry per user and key (in the SQLite store at most one Memory row of
\* data_type "preference" per user_id and key), and a loaded PreferenceSet
\* has each key once.
PreferenceKeysUnique ==
    /\ \A u \in Users : KeysOnce(PersistedMemory(u).preferences)
    /\ \A s \in Sessions : KeysOnce(long_term_data[s].preferences)
    /\ variant = "sqlite" =>
          \A u \in Users, k \in PrefKeys : Cardinality(PreferenceRows(u, k)) <= 1

(***************************************************************************)
(* Properties of the heuristic strategy (checked under SpecTurns).         *)
(***************************************************************************)
\* the value of key k is the same in the dicts a and b, or absent in both
SameAt(a, b, k) ==
    /\ DictHas(a, k) <=> DictHas(b, k)
    /\ DictHas(a, k) => DictGet(a, k) = DictGet(b, k)

KeysOf(d) == {d[i].key : i \in 1..Len(d)}

\* the turn of session s in this step: the preferences it loaded, and the
\* memory it hands to save_long_term_memory
TurnTaken(s) ==
    /\ pc[s] = "loaded"
    /\ turns' = turns + 1
    /\ pc'[s] = IF variant = "sqlite" THEN "idle" ELSE "saving"

MemoryToSave(s) == IF variant = "sqlite" THEN last_save'.memory ELSE long_term_data'[s]

\* C19: in every turn, budget is set to the whole raw input exactly when
\* the lower-cased input contains "budget", location is set to the whole
\* raw input exactly when it contains "location" or "city" (both when it
\* matches both), an input that matches no trigger leaves the preferences
\* as loaded, and no other key is written.
HeuristicStrategy ==
    [][\A s \in Sessions :
          TurnTaken(s) =>
             LET before == long_term_data[s].preferences
                 after == MemoryToSave(s).preferences
                 history == MemoryToSave(s).history
                 input == history[Len(history)].user_input
                 low == Lower(input)
                 budget == Contains(<<"b","u","d","g","e","t">>, low)
                 location == \/ Contains(<<"l","o","c","a","t","i","o","n">>, low)
                             \/ Contains(<<"c","i","t","y">>, low)
             IN  /\ budget => (DictHas(after, "budget") /\ DictGet(after, "budget") = input)
                 /\ ~budget => SameAt(after, before, "budget")
                 /\ location =>
                       (DictHas(after, "location") /\ DictGet(after, "location") = input)
                 /\ ~location => SameAt(after, before, "location")
                 /\ (~budget /\ ~location) => after = before
                 /\ KeysOf(after) = KeysOf(before)
                                      \cup (IF budget THEN {"budget"} ELSE {})
                                      \cup (IF location THEN {"location"} ELSE {})]_vars

\* a user said "BUDGET" and then "Location, budget": the second turn
\* overwrote budget and set location
BothTriggersAfterBudget ==
    \E u \in Users :
        /\ Len(committed[u]) = 2
        /\ committed[u][1].user_input = PromptBudget
        /\ committed[u][2].user_input = PromptBoth
        /\ LET prefs == PersistedMemory(u).preferences
           IN  /\ DictHas(prefs, "budget") /\ DictGet(prefs, "budget") = PromptBoth
               /\ DictHas(prefs, "location") /\ DictGet(prefs, "location") = PromptBoth

(***************************************************************************)
(* Properties of a chat turn of app.py (checked under SpecApp).            *)
(***************************************************************************)
\* the messages the Session History Store holds for a session id
HistoryOf(st, session_id) == IF session_id \in DOMAIN st THEN st[session_id] ELSE <<>>

\* the latest turn ended with a non-transient failure of the reply call
TurnFailedNonTransient ==
    /\ app_pc = "idle"
    /\ run_error = "generation"
    /\ gw.result = "raised"
    /\ Len(gw.log) >= 1
    /\ FatalAt(Len(gw.log))

\* C11: a turn whose reply call fails with a non-transient failure writes
\* no partial state: the message log gained the user's message and no
\* assistant message, the chat history of every session id is what it was
\* before the turn, no summary call was made, and the persisted and the
\* in-session preferences are what they were before the turn.
NonTransientFailureWritesNothing ==
    TurnFailedNonTransient =>
        /\ ss_messages = Append(turn.messages_before,
                                [role |-> "user", content |-> turn.input])
        /\ \A u \in AppUsers : HistoryOf(store, u) = HistoryOf(turn.store_before, u)
        /\ consolidation = NoConsolidation
        /\ gw.value = gw.log[Len(gw.log)].text
        /\ ss_preferences = turn.ss_before
        /\ (turn.user_id \in DOMAIN profiles) = turn.had_profile
        /\ turn.had_profile => profiles[turn.user_id] = turn.profile_before

\* a turn failed with a non-transient failure after an earlier turn had
\* stored a profile and a chat history for the same user
NonTransientFailureAfterStoredTurn ==
    /\ TurnFailedNonTransient
    /\ turn.had_profile
    /\ HistoryOf(store, turn.user_id) # <<>>

(***************************************************************************)
(* Properties of the Session History Store (checked under SpecApp).        *)
(***************************************************************************)
\* the two messages the chain adds for a turn that got its reply
TurnMessages ==
    <<[type |-> TypeHuman, content |-> turn.input],
      [type |-> TypeAi, content |-> gw.value]>>

\* C14: get_session_history gives one Conversation per session id for the
\* life of the process: what the script's own call returns for an id is
\* what the chain's call returns for it; and the messages of a turn are
\* appended in arrival order to the Conversation of the turn's id, every
\* other Conversation staying as it was.
SessionHistoryProcessWide ==
    /\ \A x \in AppUsers :
          (x \in DOMAIN run_store /\ x \in DOMAIN store) => run_store[x] = store[x]
    /\ gw.result = "returned" =>
          /\ HistoryOf(store, turn.user_id) =
                HistoryOf(turn.store_before, turn.user_id) \o TurnMessages
          /\ \A x \in AppUsers \ {turn.user_id} :
                HistoryOf(store, x) = HistoryOf(turn.store_before, x)

(***************************************************************************)
(* Properties of the room-type fallback (checked under SpecApp).           *)
(***************************************************************************)
\* the positions in room_types of the phrases that occur in text
PhrasesIn(text) == {i \in 1..Len(room_types) : Contains(room_types[i], text)}

\* final is raw with the sentinel (found at position at) replaced by
\* "Room Type: " and the phrase, in whatever letter case
SentinelReplacedBy(raw, final, at, phrase) ==
    LET field == Lower(RoomTypePrefix) \o phrase
    IN  /\ SubSeq(final, 1, at - 1) = SubSeq(raw, 1, at - 1)
        /\ Lower(SubSeq(final, at, at + Len(field) - 1)) = field
        /\ SubSeq(final, at + Len(field), Len(final)) =
              SubSeq(raw, at + Len(RoomTypeNotSpecified), Len(raw))

\* C18: the fallback engages only when the summary holds "Room Type: Not
\* Specified"; it then puts in the first phrase of room_types, in list
\* order, that occurs in the lower-cased history; when none occurs the
\* summary keeps the sentinel; a summary without the sentinel is stored as
\* it came.
RoomTypeFallbackSelection ==
    (consolidation.fresh /\ consolidation.outcome = "returned") =>
        LET raw == consolidation.raw
            final == consolidation.final
            hits == PhrasesIn(Lower(consolidation.history_str))
        IN  /\ ~Contains(RoomTypeNotSpecified, raw) => final = raw
            /\ (Contains(RoomTypeNotSpecified, raw) /\ hits = {}) => final = raw
            /\ (Contains(RoomTypeNotSpecified, raw) /\ hits # {}) =>
                  LET first == CHOOSE i \in hits : \A j \in hits : i <= j
                  IN  /\ ~Contains(RoomTypeNotSpecified, final)
                      /\ SentinelReplacedBy(raw, final,
                                            FindFrom(RoomTypeNotSpecified, raw, 1),
                                            room_types[first])
            /\ profiles[turn.user_id] = final

\* the fallback engaged on a history in which "suite" comes before "king
\* bed", which ranks first in the list
FallbackOnSuiteBeforeKingBed ==
    /\ consolidation.fresh
    /\ consolidation.outcome = "returned"
    /\ Contains(RoomTypeNotSpecified, consolidation.raw)
    /\ Contains(InputSuiteFirst, consolidation.history_str)

(***************************************************************************)
(* End-to-end properties of app.py (checked under SpecApp).                *)
(***************************************************************************)
\* C15: after a first turn of a user whose summary is "Name: John,
\* Location: London, Room Type: Suite, Other: Has Pool", a reload of the
\* user shows exactly these four preference values and exactly one
\* InteractionRecord.
EndToEndSummarizedTurn ==
    ( /\ app_pc = "idle"
      /\ consolidation.fresh
      /\ consolidation.outcome = "returned"
      /\ consolidation.raw = SummaryJohn
      /\ ~turn.had_profile )
    => LET reloaded == Reload(profiles, turn.user_id)
       IN  /\ reloaded.preferences = SummaryJohn
           /\ Len(reloaded.history) = 1

(***************************************************************************)
(* Properties of the Context Composer (checked under SpecStored).          *)
(***************************************************************************)
Min(a, b) == IF a < b THEN a ELSE b

RECURSIVE RenderFrom(_, _)
\* the records of history from position i on, one "\n- User: ... |
\* Assistant: ..." item each
RenderFrom(history, i) ==
    IF i > Len(history) THEN <<>>
    ELSE BulletPrefix \o UserLabel \o history[i].user_input
         \o AssistantLabel \o history[i].assistant_response
         \o RenderFrom(history, i + 1)

\* C16: for a loaded memory with n interaction records the composed context
\* renders exactly the last min(3, n) records, in stored order, while all n
\* records stay in storage; it renders "None available" for the
\* preferences exactly when there are none and for the history exactly when
\* it is empty; and equal memories give equal context texts.
ContextComposition ==
    \A s \in Sessions :
        pc[s] = "loaded" =>
            LET m == long_term_data[s]
                n == Len(m.history)
                k == Min(3, n)
                recent == recent_history(m.history)
            IN  /\ Len(recent) = k
                /\ \A i \in 1..k : recent[i] = m.history[n - k + i]
                /\ Len(PersistedHistory(user_id[s])) = n
                /\ n > 0 => HistStr(m.history) = RenderFrom(m.history, n - k + 1)
                /\ (HistStr(m.history) = NoneAvailable) <=> (n = 0)
                /\ (PrefStr(m.preferences) = NoneAvailable) <=> (m.preferences = <<>>)
                /\ LongTermContextStr(m) =
                      StoredPreferencesHeader \o PrefStr(m.preferences)
                      \o RecentInteractionsHeader
                      \o (IF n = 0 THEN NoneAvailable ELSE RenderFrom(m.history, n - k + 1))
                /\ \A s2 \in Sessions :
                      (pc[s2] = "loaded" /\ long_term_data[s2] = m) =>
                         LongTermContextStr(long_term_data[s2]) = LongTermContextStr(m)

\* a memory with more than three records, the oldest unlike the others, and
\* with preferences has been loaded
LoadedMoreThanThreeRecords ==
    \E s \in Sessions :
        /\ pc[s] = "loaded"
        /\ Len(long_term_data[s].history) > 3
        /\ long_term_data[s].history[1] # long_term_data[s].history[4]
        /\ long_term_data[s].preferences # <<>>

\* the defaults for a user without a stored profile
DefaultPreferences == {NoPreferencesFound} \cup {NamePrefix \o n : n \in UserNames}

\* C20: in every turn the preferences passed to the generation call are the
\* persisted preferences of the user id the turn runs under, or a default
\* when that user has none stored, also after the entered user id changed.
PreferencesOfTurnUser ==
    app_pc = "calling" =>
        IF turn.user_id \in DOMAIN profiles
        THEN turn.preferences = profiles[turn.user_id]
        ELSE turn.preferences \in DefaultPreferences

=============================================================================
